---- MODULE Spec2Model ----
(***************************************************************************)
(* Model of scripts/seed/index.ts: the one-shot seeding script.            *)
(*                                                                         *)
(* The script runs on a single-threaded event loop.  One step of the model *)
(* is one event-loop turn: the completion of one external operation        *)
(* (database connect, object-store check or write, remote fetch, record    *)
(* upsert) together with every promise continuation it triggers, up to the *)
(* next point where the script waits for an external operation again.      *)
(***************************************************************************)
EXTENDS Integers, Sequences, FiniteSets, Bags, TLC

\* ------------------------------------------------------------------ bounds
\* Number of times the script is started from its entry point, one after
\* the other, against the same database and object store.
MaxRuns == 2
\* Number of external operations that may fail over all runs.
MaxFaults == 1

\* ---------------------------------------------------------------- fixtures
\* packs.json: data.packs (DefaultAssetPack[]).
PacksJson ==
  << [id |-> "p1", title |-> "Pack one", url |-> "http://x/p1/t.png",
      thumbnail |-> "t1.png"],
     [id |-> "p2", title |-> "Pack two", url |-> "http://x/p2/t.png",
      thumbnail |-> "t2.png"] >>

\* <pack-id>.json: data.assets (DefaultAsset[]).  thumbnail is a path given
\* by its segments; contents is the role -> content id mapping, in property
\* order.  Asset a1 is listed by both packs; content c1 is referenced by two
\* assets of p1; content c2 is referenced from both packs.
AssetsJson(id) ==
  CASE id = "p1" ->
         << [id |-> "a1", name |-> "one", thumbnail |-> <<"p1", "img", "a1.png">>,
             url |-> "http://x/p1/a1.glb", variations |-> <<>>,
             contents |-> << <<"model", "c1">> >>],
            [id |-> "a2", name |-> "two", thumbnail |-> <<"p1", "img", "a2.png">>,
             url |-> "http://x/p1/a2.glb", variations |-> <<>>,
             contents |-> << <<"model", "c1">>, <<"texture", "c2">> >>] >>
    [] id = "p2" ->
         << [id |-> "a1", name |-> "one bis", thumbnail |-> <<"p2", "a1.png">>,
             url |-> "http://x/p2/a1.glb", variations |-> <<>>,
             contents |-> << <<"model", "c2">> >>] >>
    [] OTHER -> << >>

NumPacks == Len(PacksJson)
Packs == 1..NumPacks
PackId(k) == PacksJson[k].id
Assets(k) == AssetsJson(PackId(k))

\* Object.values(attributes.contents)
ObjectValues(contents) == [i \in 1..Len(contents) |-> contents[i][2]]

\* path.basename(defaultAttributes.thumbnail)
Basename(p) == IF Len(p) = 0 THEN "" ELSE p[Len(p)]

\* The promises of the run.  <<k, a>>: the upsert of asset a of pack k;
\* <<k, a, j>>: the check/download/upload of the j-th content of that asset.
AssetKeys == UNION {{<<k, a>> : a \in 1..Len(Assets(k))} : k \in Packs}
ContentKeys ==
  UNION {{<<t[1], t[2], j>> : j \in 1..Len(Assets(t[1])[t[2]].contents)} : t \in AssetKeys}
AssetKeysOf(k) == {t \in AssetKeys : t[1] = k}
ContentKeysOf(k) == {t \in ContentKeys : t[1] = k}
CidOf(t) == ObjectValues(Assets(t[1])[t[2]].contents)[t[3]]
Cids == {CidOf(t) : t \in ContentKeys}

\* ------------------------------------------------- external collaborators
\* S3AssetPack(id).getThumbnailFilename()
ThumbnailFilename(id) == id \o ".thumb"
\* getDefaultEthAddress()
DefaultEthAddress == "0xdefault"
\* The bytes of a thumbnail in the fixture directory.
ThumbnailBytes(filename) == << "file:" \o filename >>
\* The chunks the remote content host serves for a content id, in order.
RemoteChunks(cid) == << <<cid \o ":b1">>, <<cid \o ":b2", cid \o ":b3">> >>

\* checkFile(key): existence in the bucket
CheckFile(s, key) == key \in DOMAIN s
\* The bucket after saveFile(key, bytes, ACL.publicRead) resolved
SaveFile(s, key, bytes) == [x \in DOMAIN s \cup {key} |-> IF x = key THEN bytes ELSE s[x]]

\* Model.upsert({target}): insert, or replace the row with the same values
\* in the conflict-target columns.  A table is a bag of rows.
Upsert(table, row, target) ==
  LET keep == {r \in BagToSet(table) : \E f \in target : r[f] # row[f]}
  IN  [r \in keep |-> table[r]] (+) SetToBag({row})

\* --------------------------------------------------------------- promises
Resolved == "resolved"
RejectedStates == {"rejected", "checkFailed", "readFailed", "downloadFailed", "saveFailed"}
\* The state of the promise behind a task status.
PromiseState(st) ==
  IF st = Resolved THEN "resolved"
  ELSE IF st \in RejectedStates THEN "rejected" ELSE "pending"

\* Promise.all over promises in the given states: rejects as soon as one
\* of them rejects, resolves once all of them resolved.
PromiseAllAny(states) ==
  IF "rejected" \in states THEN "rejected"
  ELSE IF "resolved" \in states THEN "resolved" ELSE "pending"
PromiseAll(states) ==
  IF "rejected" \in states THEN "rejected"
  ELSE IF "pending" \in states THEN "pending" ELSE "resolved"

\* Buffer.concat(chunks)
RECURSIVE BufferConcat(_)
BufferConcat(chunks) ==
  IF chunks = << >> THEN << >> ELSE Head(chunks) \o BufferConcat(Tail(chunks))

\* ------------------------------------------------------------------ state
VARIABLES
  run,          \* number of the current run of the entry point
  conn,         \* db.connect(): "pending", "resolved" or "rejected"
  pc,           \* where the entry point is: "connect", "awaitPacks",
                \* "awaitAssets", or exited: "done", "caught", "crashed"
  err,          \* what made the run reject ("none" while it has not)
  cur,          \* asset phase: index of the pack whose batch is awaited
  faults,       \* external operations that have failed so far
  budget,       \* external operations that may fail, over all runs
  packTask,     \* per pack: the uploadThumbnail(...).then(upsert) promise
  upsertTask,   \* per asset: the Asset.upsert promise
  contentTask,  \* per content reference: the checkFile(...).then(...) promise
  fixtureRead,  \* outcome of readJSON: [0] of packs.json, [k] of pack k's file
  db,           \* the database: two tables, each a bag of rows
  store,        \* the bucket: key -> bytes
  writes,       \* per content id: saveFile calls that resolved, over all runs
  overwrites,   \* content ids for which saveFile was called on a present key
  runDownloads, \* content ids whose download was started in this run
  runWrites,    \* keys for which saveFile was called in this run
  storeAtStart, \* keys present in the bucket when this run started
  dbAtStart,    \* the database when this run started
  logged        \* console messages of this run

vars == << run, conn, pc, err, cur, faults, budget, packTask, upsertTask, contentTask,
           fixtureRead, db, store, writes, overwrites, runDownloads, runWrites,
           storeAtStart, dbAtStart, logged >>

Msg(text, k) == [msg |-> text, pack |-> k]

IdlePack == [st |-> "idle", check |-> "none", wrote |-> FALSE, issued |-> FALSE]
IdleContent == [st |-> "idle", check |-> "none", file |-> << >>]

FreshRun ==
  /\ conn = "pending"
  /\ pc = "connect"
  /\ err = "none"
  /\ cur = 0
  /\ packTask = [k \in Packs |-> IdlePack]
  /\ upsertTask = [t \in AssetKeys |-> "idle"]
  /\ contentTask = [t \in ContentKeys |-> IdleContent]
  /\ fixtureRead = [k \in 0..NumPacks |-> "no"]
  /\ runDownloads = {}
  /\ runWrites = {}
  /\ logged = {}

InitButBudget ==
  /\ run = 1
  /\ faults = 0
  /\ db = [packs |-> EmptyBag, assets |-> EmptyBag]
  /\ store = << >>
  /\ writes = [c \in Cids |-> 0]
  /\ overwrites = {}
  /\ storeAtStart = {}
  /\ dbAtStart = [packs |-> EmptyBag, assets |-> EmptyBag]
  /\ FreshRun

Init == InitButBudget /\ budget = MaxFaults

Running == pc \in {"connect", "awaitPacks", "awaitAssets"}
\* An operation may fail only while the fault budget lasts.
MayFail(ok) == ok \/ faults < budget

\* ------------------------------------------------------- record attributes
\* utils.omit(object, keys)
Omit(rec, keys) == [f \in DOMAIN rec \ keys |-> rec[f]]
\* { ...base, ...over }
Spread(base, over) ==
  [f \in DOMAIN base \cup DOMAIN over |-> IF f \in DOMAIN over THEN over[f] ELSE base[f]]

\* upsertAssetPacks: the attributes of the pack record; now is the run's clock.
PackAttributesFixtureThumbnail(pack, thumbnail, now) ==
  Spread(Omit(pack, {"url"}),
         [eth_address |-> DefaultEthAddress, created_at |-> now, updated_at |-> now])
PackAttributes(pack, thumbnail, now) ==
  Spread(Omit(pack, {"url"}),
         [thumbnail |-> thumbnail, eth_address |-> DefaultEthAddress,
          created_at |-> now, updated_at |-> now])

\* upsertAssets: the attributes of the asset record.
AssetAttributes(asset, packId) ==
  Spread(Omit(asset, {"variations", "url"}),
         [thumbnail |-> Basename(asset.thumbnail), model |-> asset.url,
          asset_pack_id |-> packId])

\* upsertAssets: upsert({ target: ['id', 'asset_pack_id'] })
AssetConflictTargetIdOnly == {"id"}
AssetConflictTarget == {"id", "asset_pack_id"}

\* ------------------------------------------------------------ control flow
\* readJSON: JSON.parse(readFileSync(...)); a missing or invalid file throws.
ReadJSONFallback(ok) == "parsed"
ReadJSON(ok) == IF ok THEN "parsed" ELSE "throw"

\* Where the body of the try block of upsertAssets may throw synchronously:
\* at the j-th content of asset a (new S3Content(), Object.values, checkFile).
NoThrow == <<0, 0>>
ThrowPoints(k) == {NoThrow} \cup {<<t[2], t[3]>> : t \in ContentKeysOf(k)}

\* The upsert of asset a is pushed before the try block is entered, and the
\* catch is inside the loop over the assets.
AssetUpsertUntilThrow(a, thr) == thr = NoThrow \/ a <= thr[1]
AssetUpsertDispatched(a, thr) == TRUE
\* A throw abandons the remaining contents of that asset alone.
ContentDispatched(a, j, thr) == ~(a = thr[1] /\ j >= thr[2])

\* seed: await upsertAssetPacks(assetPacks), with no catch around it.
OnPackPhaseSwallow(outcome) ==
  CASE outcome = "pending" -> "wait"
    [] outcome = "resolved" -> "assets"
    [] outcome = "rejected" -> "assets"
OnPackPhaseUnhandled(outcome) ==
  CASE outcome = "pending" -> "wait"
    [] outcome = "resolved" -> "assets"
    [] outcome = "rejected" -> "wait"
OnPackPhase(outcome) ==
  CASE outcome = "pending" -> "wait"
    [] outcome = "resolved" -> "assets"
    [] outcome = "rejected" -> "throw"

\* upsertAssets: try { await Promise.all(assetPromises) } catch { log }.
OnBatchRethrow(outcome) ==
  CASE outcome = "pending" -> "wait"
    [] outcome = "resolved" -> "next"
    [] outcome = "rejected" -> "throw"
OnBatch(outcome) ==
  CASE outcome = "pending" -> "wait"
    [] outcome = "resolved" -> "next"
    [] outcome = "rejected" -> "next"

\* The states of the promises pushed to assetPromises for pack k.
BatchStates(k, ut, ct) ==
  {PromiseState(ut[t]) : t \in {x \in AssetKeysOf(k) : ut[x] # "idle"}}
    \cup {PromiseState(ct[t].st) : t \in {x \in ContentKeysOf(k) : ct[x].st # "idle"}}
PackStates(pt) == {PromiseState(pt[k].st) : k \in Packs}

\* One iteration of the loop of upsertAssets for pack k, up to its await:
\* read the fixture, dispatch every upsert and every content check.  Every
\* pack of the fixtures lists at least one asset, so the batch is not empty
\* and the await does wait for an external operation.
StartPack(k, ok, thr, f, ut, ct, lg) ==
  IF ReadJSON(ok) = "throw"
  THEN /\ fixtureRead' = [fixtureRead EXCEPT ![k] = "failed"]
       /\ pc' = "caught"
       /\ err' = "fixture"
       /\ cur' = k
       /\ upsertTask' = ut
       /\ contentTask' = ct
       /\ faults' = f + 1
       /\ logged' = lg \cup {Msg("error", k)}
  ELSE /\ fixtureRead' = [fixtureRead EXCEPT ![k] = IF ok THEN "ok" ELSE "failed"]
       /\ pc' = "awaitAssets"
       /\ err' = err
       /\ cur' = k
       /\ upsertTask' =
            [t \in AssetKeys |->
               IF t[1] = k /\ AssetUpsertDispatched(t[2], thr) THEN "pending" ELSE ut[t]]
       /\ contentTask' =
            [t \in ContentKeys |->
               IF t[1] = k /\ ContentDispatched(t[2], t[3], thr)
               THEN [IdleContent EXCEPT !.st = "checking"] ELSE ct[t]]
       /\ faults' = f + (IF ok THEN 0 ELSE 1) + (IF thr = NoThrow THEN 0 ELSE 1)
       /\ logged' = lg \cup (IF thr = NoThrow THEN {} ELSE {Msg("Ignoring ERROR", k)})

\* upsertAssets from pack k on; past the last pack seed resolves, the entry
\* point logs 'All done!' and exits.
Advance(k, f, ut, ct, lg) ==
  IF k > NumPacks
  THEN /\ pc' = "done"
       /\ cur' = k
       /\ logged' = lg \cup {Msg("All done!", 0)}
       /\ upsertTask' = ut
       /\ contentTask' = ct
       /\ faults' = f
       /\ UNCHANGED << err, fixtureRead >>
  ELSE \E ok \in BOOLEAN, thr \in ThrowPoints(k) :
         /\ ok \/ (f < budget /\ thr = NoThrow)
         /\ thr = NoThrow \/ f < budget
         /\ StartPack(k, ok, thr, f, ut, ct, lg)

\* The process keeps waiting: nothing but the settled task changes.
Stay(f, ut, ct, lg) ==
  /\ upsertTask' = ut
  /\ contentTask' = ct
  /\ faults' = f
  /\ logged' = lg
  /\ UNCHANGED << pc, err, cur, fixtureRead >>

\* The rejection reaches the catch of the entry point: log and exit.
Caught(why, f, ut, ct, lg) ==
  /\ pc' = "caught"
  /\ err' = why
  /\ upsertTask' = ut
  /\ contentTask' = ct
  /\ faults' = f
  /\ logged' = lg \cup {Msg("error", 0)}
  /\ UNCHANGED << cur, fixtureRead >>

\* What follows the settling of a pack-phase operation.
AfterPackEvent(f, pt) ==
  LET o == IF pc = "awaitPacks" THEN OnPackPhase(PromiseAll(PackStates(pt))) ELSE "wait"
  IN  CASE o = "wait" -> Stay(f, upsertTask, contentTask, logged)
        [] o = "throw" -> Caught("packPhase", f, upsertTask, contentTask, logged)
        [] o = "assets" -> Advance(1, f, upsertTask, contentTask, logged)

\* What follows the settling of an operation of pack k's asset batch.
AfterAssetEvent(k, f, ut, ct) ==
  LET all == PromiseAll(BatchStates(k, ut, ct))
      o == IF pc = "awaitAssets" /\ k = cur THEN OnBatch(all) ELSE "wait"
      lg == IF all = "rejected" THEN logged \cup {Msg("Error saving assets", k)}
            ELSE logged
  IN  CASE o = "wait" -> Stay(f, ut, ct, logged)
        [] o = "throw" -> Caught("batch", f, ut, ct, logged)
        [] o = "next" -> Advance(k + 1, f, ut, ct, lg)

\* ------------------------------------------------------------- entry point
\* db.connect().then(seed).then(log, exit).catch(log, exit): what follows
\* the settling of db.connect().
OnConnectAnyway(outcome) == "seed"
OnConnect(outcome) == IF outcome = "resolved" THEN "seed" ELSE "catch"

\* seed starts: packs.json is read, and for every pack uploadThumbnail runs
\* up to its checkFile call.
SeedStart(f) ==
  \E ok \in BOOLEAN :
    /\ ok \/ f < budget
    /\ IF ReadJSON(ok) = "throw"
       THEN /\ pc' = "caught"
            /\ err' = "packs.json"
            /\ fixtureRead' = [fixtureRead EXCEPT ![0] = "failed"]
            /\ faults' = f + 1
            /\ logged' = logged \cup {Msg("error", 0)}
            /\ UNCHANGED << packTask, cur, upsertTask, contentTask >>
       ELSE /\ packTask' = [k \in Packs |-> [IdlePack EXCEPT !.st = "checking"]]
            /\ pc' = "awaitPacks"
            /\ fixtureRead' = [fixtureRead EXCEPT ![0] = IF ok THEN "ok" ELSE "failed"]
            /\ faults' = f + (IF ok THEN 0 ELSE 1)
            /\ UNCHANGED << err, cur, upsertTask, contentTask, logged >>

\* What the entry point does once db.connect() has settled.
Connected(outcome, f) ==
  /\ conn' = outcome
  /\ IF OnConnect(outcome) = "seed"
     THEN SeedStart(f)
     ELSE /\ Caught("connect", f, upsertTask, contentTask, logged)
          /\ UNCHANGED packTask
  /\ UNCHANGED << run, budget, db, store, writes, overwrites, runDownloads,
                  runWrites, storeAtStart, dbAtStart >>

\* db.connect() rejects: the catch of the entry point logs and exits.
ConnectRejected ==
  /\ pc = "connect"
  /\ faults < budget
  /\ Connected("rejected", faults + 1)

\* db.connect() resolves and seed starts.
ConnectResolved ==
  /\ pc = "connect"
  /\ Connected("resolved", faults)

\* -------------------------------------------------------------- pack phase
\* uploadThumbnail after checkFile(filename) resolved with exists: return the
\* filename (the upsert follows), or read the thumbnail and await saveFile.
UploadThumbnailAlways(exists, readOk) == IF readOk THEN "saving" ELSE "readFailed"
UploadThumbnailNoAwait(exists, readOk) ==
  IF exists \/ readOk THEN "upserting" ELSE "readFailed"
UploadThumbnail(exists, readOk) ==
  IF exists THEN "upserting" ELSE IF readOk THEN "saving" ELSE "readFailed"

\* checkFile(filename) of pack k settles.
ThumbnailChecked(k) ==
  /\ Running
  /\ packTask[k].st = "checking"
  /\ \E ok \in BOOLEAN, readOk \in BOOLEAN :
       LET filename == ThumbnailFilename(PackId(k))
           exists == CheckFile(store, filename)
           nxt == IF ok THEN UploadThumbnail(exists, readOk) ELSE "checkFailed"
           pt == [packTask EXCEPT
                    ![k] = [st |-> nxt,
                            check |-> IF ~ok THEN "error"
                                      ELSE IF exists THEN "present" ELSE "absent",
                            wrote |-> FALSE,
                            issued |-> nxt = "upserting"]]
       IN  /\ ok \/ readOk
           /\ (ok /\ exists) => readOk
           /\ MayFail(ok /\ readOk)
           /\ packTask' = pt
           /\ runWrites' = IF nxt = "saving" THEN runWrites \cup {filename} ELSE runWrites
           /\ AfterPackEvent(faults + (IF ok /\ readOk THEN 0 ELSE 1), pt)
  /\ UNCHANGED << run, conn, budget, db, store, writes, overwrites, runDownloads, storeAtStart,
                  dbAtStart >>

\* saveFile(filename, thumbnail, publicRead) of pack k settles.
ThumbnailSaved(k) ==
  /\ Running
  /\ packTask[k].st = "saving"
  /\ \E ok \in BOOLEAN :
       LET filename == ThumbnailFilename(PackId(k))
           pt == [packTask EXCEPT
                    ![k] = IF ok THEN [@ EXCEPT !.st = "upserting", !.wrote = TRUE,
                                                 !.issued = TRUE]
                           ELSE [@ EXCEPT !.st = "saveFailed"]]
       IN  /\ MayFail(ok)
           /\ packTask' = pt
           /\ store' = IF ok THEN SaveFile(store, filename, ThumbnailBytes(filename))
                       ELSE store
           /\ AfterPackEvent(faults + (IF ok THEN 0 ELSE 1), pt)
  /\ UNCHANGED << run, conn, budget, db, writes, overwrites, runDownloads, runWrites, storeAtStart,
                  dbAtStart >>

\* new AssetPack(attributes).upsert() of pack k settles.
PackUpserted(k) ==
  /\ Running
  /\ packTask[k].st = "upserting"
  /\ \E ok \in BOOLEAN :
       LET row == PackAttributes(PacksJson[k], ThumbnailFilename(PackId(k)), run)
           pt == [packTask EXCEPT ![k].st = IF ok THEN Resolved ELSE "rejected"]
       IN  /\ MayFail(ok)
           /\ packTask' = pt
           /\ db' = IF ok THEN [db EXCEPT !.packs = Upsert(@, row, {"id"})] ELSE db
           /\ AfterPackEvent(faults + (IF ok THEN 0 ELSE 1), pt)
  /\ UNCHANGED << run, conn, budget, store, writes, overwrites, runDownloads, runWrites,
                  storeAtStart, dbAtStart >>

\* ------------------------------------------------------------- asset phase
\* new Asset(attributes).upsert({ target: ['id', 'asset_pack_id'] }) settles.
AssetUpserted(t) ==
  /\ Running
  /\ upsertTask[t] = "pending"
  /\ \E ok \in BOOLEAN :
       LET row == AssetAttributes(Assets(t[1])[t[2]], PackId(t[1]))
           ut == [upsertTask EXCEPT ![t] = IF ok THEN Resolved ELSE "rejected"]
       IN  /\ MayFail(ok)
           /\ db' = IF ok THEN [db EXCEPT !.assets = Upsert(@, row, AssetConflictTarget)]
                    ELSE db
           /\ AfterAssetEvent(t[1], faults + (IF ok THEN 0 ELSE 1), ut, contentTask)
  /\ UNCHANGED << run, conn, budget, packTask, store, writes, overwrites, runDownloads, runWrites,
                  storeAtStart, dbAtStart >>

\* The continuation of checkFile(cid): nothing to do if the content exists,
\* else downloadAsset(cid) is called.
ContentAlwaysDownload(exists) == "downloading"
ContentAfterCheck(exists) == IF exists THEN Resolved ELSE "downloading"

\* s3Content.checkFile(cid) settles.
ContentChecked(t) ==
  /\ Running
  /\ contentTask[t].st = "checking"
  /\ \E ok \in BOOLEAN :
       LET cid == CidOf(t)
           exists == CheckFile(store, cid)
           nxt == IF ok THEN ContentAfterCheck(exists) ELSE "checkFailed"
           ct == [contentTask EXCEPT
                    ![t] = [st |-> nxt,
                            check |-> IF ~ok THEN "error"
                                      ELSE IF exists THEN "present" ELSE "absent",
                            file |-> << >>]]
       IN  /\ MayFail(ok)
           /\ runDownloads' = IF nxt = "downloading" THEN runDownloads \cup {cid}
                              ELSE runDownloads
           /\ AfterAssetEvent(t[1], faults + (IF ok THEN 0 ELSE 1), upsertTask, ct)
  /\ UNCHANGED << run, conn, budget, packTask, db, store, writes, overwrites, runWrites,
                  storeAtStart, dbAtStart >>

\* downloadAsset: the value the promise resolves with on 'end', given the
\* chunks pushed by the 'data' events in arrival order.
DownloadedFileInitial(chunks) == BufferConcat(<< >>)
DownloadedFile(chunks) == BufferConcat(chunks)

\* downloadAsset: the promise resolves on the response's 'end', rejects on
\* the response's 'error'; an 'error' of the request has no listener.
DownloadAsset(event) ==
  CASE event = "end" -> "resolved"
    [] event = "responseError" -> "rejected"
    [] event = "requestError" -> "uncaught"

\* The events that end a download: of the response, or of the request.
ResponseEvents == {"end", "responseError"}
DownloadEvents == ResponseEvents \cup {"requestError"}

\* The download of a content ends with one of the given events; when it
\* resolves, saveFile is called.
ContentDownloadedOn(t, events) ==
  /\ Running
  /\ contentTask[t].st = "downloading"
  /\ \E event \in events :
       LET cid == CidOf(t)
           out == DownloadAsset(event)
           ok == event = "end"
           ct == [contentTask EXCEPT
                    ![t].st = IF out = "resolved" THEN "saving"
                              ELSE IF out = "rejected" THEN "downloadFailed" ELSE @,
                    ![t].file = IF out = "resolved" THEN DownloadedFile(RemoteChunks(cid))
                                ELSE @]
       IN  /\ MayFail(ok)
           /\ runWrites' = IF out = "resolved" THEN runWrites \cup {cid} ELSE runWrites
           /\ overwrites' = IF out = "resolved" /\ CheckFile(store, cid)
                            THEN overwrites \cup {cid} ELSE overwrites
           /\ IF out = "uncaught"
              THEN /\ pc' = "crashed"
                   /\ faults' = faults + 1
                   /\ UNCHANGED << err, cur, fixtureRead, upsertTask, contentTask, logged >>
              ELSE AfterAssetEvent(t[1], faults + (IF ok THEN 0 ELSE 1), upsertTask, ct)
  /\ UNCHANGED << run, conn, budget, packTask, db, store, writes, runDownloads, storeAtStart,
                  dbAtStart >>

ContentDownloaded(t) == ContentDownloadedOn(t, DownloadEvents)

\* s3Content.saveFile(cid, file, publicRead) settles.
ContentSaved(t) ==
  /\ Running
  /\ contentTask[t].st = "saving"
  /\ \E ok \in BOOLEAN :
       LET cid == CidOf(t)
           file == contentTask[t].file
           ct == [contentTask EXCEPT ![t].st = IF ok THEN Resolved ELSE "saveFailed"]
       IN  /\ MayFail(ok)
           /\ store' = IF ok THEN SaveFile(store, cid, file) ELSE store
           /\ writes' = IF ok THEN [writes EXCEPT ![cid] = @ + 1] ELSE writes
           /\ AfterAssetEvent(t[1], faults + (IF ok THEN 0 ELSE 1), upsertTask, ct)
  /\ UNCHANGED << run, conn, budget, packTask, db, overwrites, runDownloads, runWrites,
                  storeAtStart, dbAtStart >>

\* ------------------------------------------------------------------- runs
\* The process has exited and the script is started again with the same
\* fixtures; whatever was in flight at the exit is lost.
Rerun ==
  /\ ~Running
  /\ run < MaxRuns
  /\ run' = run + 1
  /\ conn' = "pending"
  /\ storeAtStart' = DOMAIN store
  /\ dbAtStart' = db
  /\ pc' = "connect"
  /\ err' = "none"
  /\ cur' = 0
  /\ packTask' = [k \in Packs |-> IdlePack]
  /\ upsertTask' = [t \in AssetKeys |-> "idle"]
  /\ contentTask' = [t \in ContentKeys |-> IdleContent]
  /\ fixtureRead' = [k \in 0..NumPacks |-> "no"]
  /\ runDownloads' = {}
  /\ runWrites' = {}
  /\ logged' = {}
  /\ UNCHANGED << faults, budget, db, store, writes, overwrites >>

Next ==
  \/ ConnectRejected
  \/ ConnectResolved
  \/ \E k \in Packs : ThumbnailChecked(k)
  \/ \E k \in Packs : ThumbnailSaved(k)
  \/ \E k \in Packs : PackUpserted(k)
  \/ \E t \in AssetKeys : AssetUpserted(t)
  \/ \E t \in ContentKeys : ContentChecked(t)
  \/ \E t \in ContentKeys : ContentDownloaded(t)
  \/ \E t \in ContentKeys : ContentSaved(t)
  \/ Rerun

Spec == Init /\ [][Next]_vars

\* The runs in which every external operation resolves or rejects: every
\* download ends with an event of its response, and an operation that is
\* pending eventually settles.
Settle ==
  \/ ConnectRejected
  \/ ConnectResolved
  \/ \E k \in Packs : ThumbnailChecked(k)
  \/ \E k \in Packs : ThumbnailSaved(k)
  \/ \E k \in Packs : PackUpserted(k)
  \/ \E t \in AssetKeys : AssetUpserted(t)
  \/ \E t \in ContentKeys : ContentChecked(t)
  \/ \E t \in ContentKeys : ContentDownloadedOn(t, ResponseEvents)
  \/ \E t \in ContentKeys : ContentSaved(t)

\* A single run in which one more operation may fail.
OneRunNext ==
  \/ ConnectRejected
  \/ ConnectResolved
  \/ \E k \in Packs : ThumbnailChecked(k)
  \/ \E k \in Packs : ThumbnailSaved(k)
  \/ \E k \in Packs : PackUpserted(k)
  \/ \E t \in AssetKeys : AssetUpserted(t)
  \/ \E t \in ContentKeys : ContentChecked(t)
  \/ \E t \in ContentKeys : ContentDownloaded(t)
  \/ \E t \in ContentKeys : ContentSaved(t)

OneRunInit == InitButBudget /\ budget = MaxFaults + 1

OneRunSpec == OneRunInit /\ [][OneRunNext]_vars

SettlingNext ==
  \/ Settle
  \/ Rerun

SettlingSpec == Init /\ [][SettlingNext]_vars /\ WF_vars(Settle)

\* ------------------------------------------------------------- properties
Pending(k) ==
  \/ \E t \in AssetKeysOf(k) : upsertTask[t] = "pending"
  \/ \E t \in ContentKeysOf(k) : contentTask[t].st \in {"checking", "downloading", "saving"}
BatchRejected(k) ==
  \/ \E t \in AssetKeysOf(k) : upsertTask[t] \in RejectedStates
  \/ \E t \in ContentKeysOf(k) : contentTask[t].st \in RejectedStates
AssetPhaseStarted ==
  \/ \E t \in AssetKeys : upsertTask[t] # "idle"
  \/ \E t \in ContentKeys : contentTask[t].st # "idle"
  \/ \E k \in Packs : fixtureRead[k] # "no"
  \/ runDownloads # {}
  \/ runWrites \cap Cids # {}
PackKeys(table) == {r.id : r \in BagToSet(table)}
AssetRowKeys(table) == {<<r.id, r.asset_pack_id>> : r \in BagToSet(table)}
NoDuplicates(table, target) ==
  \A r1, r2 \in BagToSet(table) :
    /\ table[r1] = 1
    /\ (\A f \in target : r1[f] = r2[f]) => r1 = r2
UpsertedThisRun(k) ==
  \E r \in BagToSet(db.packs) : r.id = PackId(k) /\ r.updated_at = run

\* C1: no asset-phase operation (fixture read, asset upsert, content check,
\* download or upload) is dispatched while the thumbnail step or the record
\* upsert of any pack is not yet resolved: the asset phase starts only once
\* every pack upsert has settled.
C1_PackBarrier ==
  AssetPhaseStarted => \A k \in Packs : packTask[k].st = Resolved
C1_Witness ==
  /\ pc = "awaitAssets"
  /\ \E t \in ContentKeys : contentTask[t].st = "downloading"
  /\ \E k \in Packs : packTask[k].wrote

\* C2: when the fixture of pack k+1 has been read (or an operation of pack
\* k+1 dispatched), every operation dispatched for pack k has settled.
C2_OnePackAtATime ==
  \A k \in Packs :
    (k > 1 /\ (fixtureRead[k] # "no" \/ Pending(k) \/ BatchRejected(k))) => ~Pending(k - 1)

\* C3: for every content identifier the object-store write is performed at
\* most once, and never for a key that is already present in the store.
C3_WriteOnce ==
  \A c \in Cids : writes[c] <= 1 /\ c \notin overwrites

\* C4: a run that follows an earlier run downloads nothing and writes nothing
\* for a key the store already held when it started; and when no operation
\* failed, the record keys after the second run are those after the first
\* run, with no key held by two records.
C4_Idempotent ==
  /\ run >= 2 => (runDownloads \cup runWrites) \cap storeAtStart = {}
  /\ (run >= 2 /\ faults = 0 /\ pc = "done") =>
       /\ NoDuplicates(db.packs, {"id"})
       /\ NoDuplicates(db.assets, {"id", "asset_pack_id"})
       /\ PackKeys(db.packs) = PackKeys(dbAtStart.packs)
       /\ AssetRowKeys(db.assets) = AssetRowKeys(dbAtStart.assets)
C4_Witness ==
  /\ run = 2 /\ faults = 0 /\ pc = "done"
  /\ Cids \subseteq storeAtStart
  /\ \A r \in BagToSet(db.packs) : r.updated_at = 2
  /\ Cardinality(AssetRowKeys(db.assets)) = Cardinality(AssetKeys)

C6_ThumbnailBeforeUpsert ==
  \A k \in Packs :
    LET p == packTask[k]
        filename == ThumbnailFilename(PackId(k))
    IN  /\ (p.issued \/ p.st \in {"upserting", Resolved} \/ UpsertedThisRun(k)) =>
             /\ p.issued
             /\ CheckFile(store, filename)
             /\ \/ p.check = "present" /\ ~p.wrote
                \/ p.check = "absent" /\ p.wrote /\ store[filename] = ThumbnailBytes(filename)
        /\ p.check = "present" => ~p.wrote /\ filename \notin runWrites /\ p.st # "saving"
        /\ p.st \in {"checkFailed", "readFailed", "saveFailed"} =>
             ~p.issued /\ ~UpsertedThisRun(k)
C6_Witness ==
  \E k \in Packs :
    /\ packTask[k].check = "absent" /\ packTask[k].wrote
    /\ packTask[k].st = Resolved /\ UpsertedThisRun(k)

ContentFailed(k) ==
  \E t \in ContentKeysOf(k) : contentTask[t].st \in {"checkFailed", "downloadFailed", "saveFailed"}
HasAssetRow(t) ==
  \E r \in BagToSet(db.assets) :
    r.id = Assets(t[1])[t[2]].id /\ r.asset_pack_id = PackId(t[1])

\* C7: once the fixture of a pack has been read, the record upsert of every
\* asset it lists has been issued, whatever fails in the content operations
\* of that pack; an upsert that resolved left its record under key
\* (asset id, pack id).
C7_UpsertsIssued ==
  \A k \in Packs :
    fixtureRead[k] = "ok" =>
      \A t \in AssetKeysOf(k) :
        /\ upsertTask[t] # "idle"
        /\ upsertTask[t] = Resolved => HasAssetRow(t)
C7_Witness ==
  /\ ContentFailed(1)
  /\ \A t \in AssetKeysOf(1) : upsertTask[t] = Resolved /\ HasAssetRow(t)

\* C8: after the existence check or the fetch of one content of a pack has
\* failed, no download and no upload is started for a content of that pack.
C8_NoStartAfterFailure ==
  [][\A k \in Packs :
       (\E t \in ContentKeysOf(k) : contentTask[t].st \in {"checkFailed", "downloadFailed"}) =>
         \A u \in ContentKeysOf(k) :
           contentTask'[u].st \in {"downloading", "saving"} =>
             contentTask'[u].st = contentTask[u].st]_vars

\* C9: a rejection in a pack's batch never makes seed reject; it is logged,
\* the fixture of the next pack is read at once and, if readable, every asset
\* upsert of that pack is issued; a run that sees no fixture-read error and
\* no uncaught exception completes with every pack read and every asset
\* upsert issued.
C9_BatchErrorNotFatal ==
  /\ err \in {"none", "connect", "packs.json", "packPhase", "fixture"}
  /\ \A k \in Packs :
       BatchRejected(k) =>
         /\ Msg("Error saving assets", k) \in logged
         /\ IF k < NumPacks
            THEN /\ fixtureRead[k + 1] # "no"
                 /\ fixtureRead[k + 1] = "ok" =>
                      \A t \in AssetKeysOf(k + 1) : upsertTask[t] # "idle"
            ELSE pc = "done"
         /\ pc = "caught" => \E j \in Packs : j > k /\ fixtureRead[j] = "failed"
  /\ pc = "done" =>
       /\ \A k \in Packs : fixtureRead[k] = "ok"
       /\ \A t \in AssetKeys : upsertTask[t] # "idle"
C9_Witness ==
  /\ pc = "done"
  /\ BatchRejected(1)
  /\ \A t \in AssetKeysOf(2) : upsertTask[t] = Resolved

\* C10: if packs.json cannot be read, nothing is dispatched and the run ends
\* in the entry point's catch; if the fixture of pack k cannot be read, the
\* run ends there in the catch, with nothing dispatched for pack k or any
\* later pack.
C10_FixtureErrorFatal ==
  /\ fixtureRead[0] = "failed" =>
       /\ pc = "caught" /\ err = "packs.json" /\ Msg("error", 0) \in logged
       /\ \A k \in Packs : packTask[k].st = "idle" /\ fixtureRead[k] = "no"
       /\ \A t \in AssetKeys : upsertTask[t] = "idle"
       /\ \A t \in ContentKeys : contentTask[t].st = "idle"
       /\ runDownloads = {} /\ runWrites = {}
  /\ \A k \in Packs :
       fixtureRead[k] = "failed" =>
         /\ pc = "caught" /\ err = "fixture" /\ Msg("error", k) \in logged
         /\ \A j \in Packs :
              j >= k =>
                /\ \A t \in AssetKeysOf(j) : upsertTask[t] = "idle"
                /\ \A t \in ContentKeysOf(j) : contentTask[t].st = "idle"
                /\ j > k => fixtureRead[j] = "no"
C10_Witness ==
  /\ fixtureRead[2] = "failed"
  /\ \A t \in AssetKeysOf(1) : upsertTask[t] = Resolved
  /\ pc = "caught"

NothingIssued ==
  /\ \A k \in Packs : packTask[k].st = "idle" /\ fixtureRead[k] = "no"
  /\ fixtureRead[0] = "no"
  /\ \A t \in AssetKeys : upsertTask[t] = "idle"
  /\ \A t \in ContentKeys : contentTask[t].st = "idle"
  /\ runDownloads = {} /\ runWrites = {}
  /\ db = dbAtStart
  /\ DOMAIN store = storeAtStart

\* C11: until db.connect() has resolved nothing is read, no upsert and no
\* object-store operation is issued; if it rejects, nothing is ever issued
\* and the run ends in the entry point's catch, which logs and exits.
C11_ConnectFirst ==
  /\ conn # "resolved" => NothingIssued
  /\ conn = "rejected" =>
       pc = "caught" /\ err = "connect" /\ Msg("error", 0) \in logged
C11_Witness ==
  /\ run = 2
  /\ conn = "rejected"
  /\ Cids \subseteq storeAtStart
  /\ pc = "caught"

PackRows(k) == {r \in BagToSet(db.packs) : r.id = PackId(k)}
AssetRows(t) ==
  {r \in BagToSet(db.assets) :
     r.id = Assets(t[1])[t[2]].id /\ r.asset_pack_id = PackId(t[1])}

\* C12: once a pack's upsert has resolved, and so after every run that
\* completes, there is exactly one asset-pack record with that pack's id;
\* its thumbnail is the filename the object-store client computes for the
\* pack id, not the url or the thumbnail of the fixture, and it has no url.
C12_PackRecords ==
  \A k \in Packs :
    (packTask[k].st = Resolved \/ pc = "done") =>
      /\ Cardinality(PackRows(k)) = 1
      /\ \A r \in PackRows(k) :
           /\ db.packs[r] = 1
           /\ r.thumbnail = ThumbnailFilename(PackId(k))
           /\ r.thumbnail \notin {PacksJson[k].url, PacksJson[k].thumbnail}
           /\ "url" \notin DOMAIN r
           /\ r.title = PacksJson[k].title
           /\ r.eth_address = DefaultEthAddress
C12_Witness ==
  /\ pc = "done" /\ faults = 0 /\ run = 1
  /\ \A k \in Packs : Cardinality(PackRows(k)) = 1

\* C13: an asset upsert that resolved leaves exactly one record under its
\* key (asset id, pack id), with its own pack id, the url of its own fixture
\* as model and the basename of its thumbnail; no later upsert of the same
\* asset id under another pack removes or changes it.
C13_CompositeKey ==
  \A t \in AssetKeys :
    upsertTask[t] = Resolved =>
      /\ Cardinality(AssetRows(t)) = 1
      /\ \A r \in AssetRows(t) :
           /\ db.assets[r] = 1
           /\ r.model = Assets(t[1])[t[2]].url
           /\ r.thumbnail = Basename(Assets(t[1])[t[2]].thumbnail)
           /\ r.contents = Assets(t[1])[t[2]].contents
           /\ DOMAIN r \cap {"url", "variations"} = {}
C13_Witness ==
  /\ upsertTask[<<1, 1>>] = Resolved
  /\ upsertTask[<<2, 1>>] = Resolved
  /\ Assets(1)[1].id = Assets(2)[1].id
  /\ AssetRows(<<1, 1>>) # AssetRows(<<2, 1>>)
  /\ Cardinality(AssetRowKeys(db.assets)) = 3

\* C14: every call of downloadAsset settles: its promise resolves with the
\* body when the response ends and rejects on any transport error, an error
\* of the request included; no error is ever raised outside the promise.
C14_DownloadSettles ==
  /\ pc # "crashed"
  /\ \A t \in ContentKeys :
       contentTask[t].st \in {"saving", "saveFailed"} => CidOf(t) \in runDownloads

\* C15: when every external operation settles, a run that has started
\* reaches process exit, after 'All done!' or through the catch of the
\* entry point.
C15_Terminates == [](Running => <>(pc \in {"done", "caught"}))
C15_Witness ==
  /\ pc = "done"
  /\ BatchRejected(NumPacks)
  /\ Msg("All done!", 0) \in logged

InFlight(st) == st \in {"checking", "downloading", "saving"}

\* C16: while a content operation of the pack whose batch is awaited stays
\* unsettled, the run does not move on to the next pack and seed does not
\* complete, however the other operations of the batch settle.
C16_HangStalls ==
  [][\A k \in Packs :
       (/\ pc = "awaitAssets" /\ cur = k /\ run' = run
        /\ \E t \in ContentKeysOf(k) :
             InFlight(contentTask[t].st) /\ contentTask'[t] = contentTask[t])
       => cur' = k /\ pc' # "done"]_vars

\* C18: when seed has resolved and the entry point has logged 'All done!' and
\* exited, no operation dispatched during the run is still unsettled.
C18_NothingInFlightAtExit ==
  pc = "done" =>
    /\ \A k \in Packs : ~Pending(k)
    /\ \A k \in Packs : PromiseState(packTask[k].st) # "pending"

\* C19: when the thumbnail check, read or write or the record upsert of a
\* pack rejects, seed rejects and the run ends in the entry point's catch
\* with no fixture of a pack read and no asset upsert, content check,
\* download or upload dispatched.
C19_PackFailureAborts ==
  \A k \in Packs :
    packTask[k].st \in RejectedStates =>
      /\ pc = "caught" /\ err = "packPhase" /\ Msg("error", 0) \in logged
      /\ ~AssetPhaseStarted
C19_Witness ==
  \E k, j \in Packs :
    /\ packTask[k].st = "saveFailed"
    /\ packTask[j].st \in {"checking", "saving", "upserting"}
    /\ pc = "caught"

\* The body the remote host serves for a content: its chunks, in order.
ExpectedBody(c) == RemoteChunks(c)[1] \o RemoteChunks(c)[2]
Wrote(t) ==
  \/ contentTask[t].st \in {"saving", "saveFailed"}
  \/ contentTask[t].st = Resolved /\ contentTask[t].check # "present"

\* C20: a content task calls saveFile only after its own existence check
\* returned absent and its own download resolved, never after a failed check
\* or download, and with the bytes it downloaded; whatever the store holds
\* under a content id is the body the remote host serves for it.
C20_WriteAfterCheckAndDownload ==
  /\ \A t \in ContentKeys :
       Wrote(t) =>
         /\ contentTask[t].check = "absent"
         /\ CidOf(t) \in runDownloads /\ CidOf(t) \in runWrites
         /\ contentTask[t].file = ExpectedBody(CidOf(t))
  /\ \A t \in ContentKeys :
       contentTask[t].check \in {"none", "error", "present"}
         \/ contentTask[t].st \in {"downloading", "downloadFailed"}
       => contentTask[t].file = << >> /\ ~Wrote(t)
  /\ \A c \in Cids :
       /\ c \in runWrites => \E t \in ContentKeys : CidOf(t) = c /\ Wrote(t)
       /\ CheckFile(store, c) =>
            /\ store[c] = ExpectedBody(c)
            /\ c \notin storeAtStart =>
                 \E t \in ContentKeys :
                   CidOf(t) = c /\ contentTask[t].st = Resolved /\ Wrote(t)
C20_Witness ==
  \E t \in ContentKeys :
    /\ contentTask[t].st = Resolved /\ contentTask[t].check = "absent"
    /\ store[CidOf(t)] = ExpectedBody(CidOf(t))
    /\ Len(store[CidOf(t)]) = 3

HadAssetRow(t) ==
  \E r \in BagToSet(dbAtStart.assets) :
    r.id = Assets(t[1])[t[2]].id /\ r.asset_pack_id = PackId(t[1])
AssetOf(t) == <<t[1], t[2]>>

\* C17: record and content are independent: whether an asset's record
\* exists is decided by the outcome of its upsert alone, and whether a
\* content is in the store by the outcome of its upload alone; neither is
\* undone when the other fails.  The witness is an end state of a run that
\* holds both a record whose content upload failed (content absent) and an
\* uploaded content whose asset's upsert failed (record absent).
C17_NoAtomicity ==
  /\ \A t \in AssetKeys :
       HasAssetRow(t) <=> (upsertTask[t] = Resolved \/ HadAssetRow(t))
  /\ \A c \in Cids :
       CheckFile(store, c) <=>
         \/ c \in storeAtStart
         \/ \E t \in ContentKeys :
              CidOf(t) = c /\ contentTask[t].st = Resolved /\ contentTask[t].check = "absent"
C17_Witness ==
  /\ pc = "done"
  /\ \E t \in ContentKeys :
       /\ upsertTask[AssetOf(t)] = Resolved /\ HasAssetRow(AssetOf(t))
       /\ contentTask[t].st \in {"checkFailed", "downloadFailed", "saveFailed"}
       /\ ~CheckFile(store, CidOf(t))
  /\ \E t \in ContentKeys :
       /\ upsertTask[AssetOf(t)] = "rejected" /\ ~HasAssetRow(AssetOf(t))
       /\ contentTask[t].st = Resolved /\ contentTask[t].check = "absent"
       /\ CheckFile(store, CidOf(t))

====
